---- MODULE Spec2Model ----
(***************************************************************************)
(* Model of docs/src/config.ts: the type Config and the exported constant  *)
(* config = Object.freeze<Config>({ ... }).                                *)
(*                                                                         *)
(* The object literal lives on a heap of ECMAScript ordinary objects, each *)
(* with property descriptors and an [[Extensible]] flag, so that what      *)
(* Object.freeze does (and does not do) to the outer record and to the     *)
(* nested seo / algolia records can be observed by consumers that read,    *)
(* assign and delete properties.  The type Config is modelled as the       *)
(* assignability check the compiler performs on the literal and on writes. *)
(* Strings are sequences of characters.                                    *)
(***************************************************************************)
EXTENDS Integers, Sequences, FiniteSets, TLC

VARIABLES cand, pc, heap, insts, snap, last, seen, steps

vars == <<cand, pc, heap, insts, snap, last, seen, steps>>

\* ---------------------------------------------------------------- bounds
MaxInst == 2
MaxSteps == 3
NumConsumers == 2

Consumers == 1..NumConsumers
ObjIds == 1..(3 * MaxInst)

\* ------------------------------------------------------ string constants
GithubUrl == <<"h", "t", "t", "p", "s", ":", "/", "/", "g", "i", "t", "h", "u", "b", ".", "c", "o", "m", "/", "d", "j", "-", "n", "i", "t", "e", "h", "a", "w", "k", "/", "F", "a", "s", "t", "E", "n", "d", "p", "o", "i", "n", "t", "s">>
DiscordUrl == <<"h", "t", "t", "p", "s", ":", "/", "/", "d", "i", "s", "c", "o", "r", "d", ".", "c", "o", "m", "/", "i", "n", "v", "i", "t", "e", "/", "y", "Q", "Z", "4", "u", "v", "f", "F", "2", "E">>
OrgRepoUrl == <<"h", "t", "t", "p", "s", ":", "/", "/", "g", "i", "t", "h", "u", "b", ".", "c", "o", "m", "/", "o", "r", "g", "/", "r", "e", "p", "o">>
InviteUrl == <<"h", "t", "t", "p", "s", ":", "/", "/", "d", "i", "s", "c", "o", "r", "d", ".", "c", "o", "m", "/", "i", "n", "v", "i", "t", "e", "/", "a", "b", "c", "1", "2", "3">>
MyDocs == <<"M", "y", " ", "D", "o", "c", "s">>
DocsForMyProject == <<"D", "o", "c", "s", " ", "f", "o", "r", " ", "M", "y", " ", "P", "r", "o", "j", "e", "c", "t">>
NotAUrl == <<"n", "o", "t", " ", "a", " ", "u", "r", "l">>
HttpsPrefix == <<"h", "t", "t", "p", "s", ":", "/", "/">>
HttpPrefix == <<"h", "t", "t", "p", ":", "/", "/">>
Empty == <<>>
K == <<"k">>

\* ------------------------------------------------------------ JS values
Str(s) == [t |-> "string", s |-> s, ref |-> 0]
Num == [t |-> "number", s |-> Empty, ref |-> 0]
Ref(id) == [t |-> "object", s |-> Empty, ref |-> id]
Undefined == [t |-> "undefined", s |-> Empty, ref |-> 0]
\* a property the literal does not mention at all
Missing == [t |-> "missing", s |-> Empty, ref |-> 0]

\* ------------------------------------------------- shape of the record
TopFields == {"github", "discord"}
SeoFields == {"title", "description"}
AlgoliaFields == {"apiKey", "appId", "indexName"}
Fields == TopFields \cup SeoFields \cup AlgoliaFields
TopKeys == {"seo", "github", "discord", "algolia"}
Keys == TopKeys \cup SeoFields \cup AlgoliaFields \cup {"extra"}

Parent(f) ==
  IF f \in SeoFields THEN "seo"
  ELSE IF f \in AlgoliaFields THEN "algolia"
  ELSE "config"

\* ------------------------------------------------------- the type Config
\* title and description are declared with the literal type '', the other
\* five fields with the type string.
FieldType(f) == IF f \in SeoFields THEN "emptyLiteral" ELSE "string"

Assignable(v, ty) ==
  IF ty = "emptyLiteral" THEN v = Str(Empty) ELSE v.t = "string"

ConformsOptional(lit) ==
  \A f \in Fields : lit[f] = Missing \/ Assignable(lit[f], FieldType(f))

\* the literal handed to Object.freeze<Config> type-checks against Config
Conforms(lit) ==
  \A f \in Fields : lit[f] # Missing /\ Assignable(lit[f], FieldType(f))

\* ------------------------------------------------ the literal as shipped
ShippedNoIndexName ==
  [f \in Fields |->
     CASE f = "github" -> Str(GithubUrl)
       [] f = "discord" -> Str(DiscordUrl)
       [] f = "indexName" -> Missing
       [] OTHER -> Str(Empty)]

Shipped ==
  [f \in Fields |->
     CASE f = "github" -> Str(GithubUrl)
       [] f = "discord" -> Str(DiscordUrl)
       [] OTHER -> Str(Empty)]

\* ------------------------------------------------------ ordinary objects
NoProp == [present |-> FALSE, value |-> Undefined, writable |-> FALSE, configurable |-> FALSE]
DataProp(v) == [present |-> TRUE, value |-> v, writable |-> TRUE, configurable |-> TRUE]
NoObj == [props |-> [k \in Keys |-> NoProp], extensible |-> FALSE]

\* { k: lit[k], ... } for the keys ks the literal mentions
ObjectLiteral(lit, ks) ==
  [props |-> [k \in Keys |-> IF k \in ks /\ lit[k] # Missing THEN DataProp(lit[k]) ELSE NoProp],
   extensible |-> TRUE]

FreezeNoop(o) == o

FreezeSealOnly(o) ==
  [props |-> [k \in Keys |->
                IF o.props[k].present
                THEN [o.props[k] EXCEPT !.writable = FALSE, !.configurable = FALSE]
                ELSE o.props[k]],
   extensible |-> o.extensible]

\* Object.freeze(o): [[PreventExtensions]], then every own property becomes
\* non-writable and non-configurable.  Values that are objects are untouched.
Freeze(o) ==
  [props |-> [k \in Keys |->
                IF o.props[k].present
                THEN [o.props[k] EXCEPT !.writable = FALSE, !.configurable = FALSE]
                ELSE o.props[k]],
   extensible |-> FALSE]

OuterLiteral(lit, seoId, algoliaId) ==
  [props |-> [k \in Keys |->
                CASE k = "seo" -> DataProp(Ref(seoId))
                  [] k = "algolia" -> DataProp(Ref(algoliaId))
                  [] k \in TopFields /\ lit[k] # Missing -> DataProp(lit[k])
                  [] OTHER -> NoProp],
   extensible |-> TRUE]

\* a variant in which every evaluation reuses the nested records of the
\* first one instead of creating fresh ones
ConstructShared(h, n, lit) ==
  IF n = 0
  THEN [h EXCEPT ![n + 1] = Freeze(OuterLiteral(lit, n + 2, n + 3)),
                 ![n + 2] = ObjectLiteral(lit, SeoFields),
                 ![n + 3] = ObjectLiteral(lit, AlgoliaFields)]
  ELSE [h EXCEPT ![n + 1] = Freeze(OuterLiteral(lit, 2, 3))]

\* evaluation of Object.freeze<Config>({ seo: {...}, github, discord,
\* algolia: {...} }) with n objects already allocated
Construct(h, n, lit) ==
  [h EXCEPT ![n + 1] = Freeze(OuterLiteral(lit, n + 2, n + 3)),
            ![n + 2] = ObjectLiteral(lit, SeoFields),
            ![n + 3] = ObjectLiteral(lit, AlgoliaFields)]

\* --------------------------------------------------------------- reading
\* o[k] on the object with identity id
Get(h, id, k) == IF h[id].props[k].present THEN h[id].props[k].value ELSE Undefined

\* config.f for a top-level field, config.seo.f / config.algolia.f otherwise
ReadField(h, root, f) ==
  IF Parent(f) = "config" THEN Get(h, root, f)
  ELSE LET p == Get(h, root, Parent(f))
       IN IF p.t = "object" THEN Get(h, p.ref, f) ELSE Undefined

Flat(h, root) == [f \in Fields |-> ReadField(h, root, f)]

OwnKeys(h, id) == {k \in Keys : h[id].props[k].present}

\* --------------------------------------------------------------- writing
\* [[Set]] on an ordinary object with a data property or no property k
\* (nothing on the prototype chain carries these keys)
SetOk(o, k) == IF o.props[k].present THEN o.props[k].writable ELSE o.extensible

SetApply(o, k, v) ==
  [o EXCEPT !.props[k] = IF @.present THEN [@ EXCEPT !.value = v] ELSE DataProp(v)]

\* [[Delete]]
DeleteOk(o, k) == ~o.props[k].present \/ o.props[k].configurable

DeleteApply(o, k) == [o EXCEPT !.props[k] = NoProp]

\* the places a consumer holding config can write to:
\* config.k, config.seo.k, config.algolia.k
WritePaths ==
  ({"config"} \X (TopKeys \cup {"extra"}))
    \cup ({"seo"} \X SeoFields)
    \cup ({"algolia"} \X AlgoliaFields)

\* deletions are attempted on the exported record itself
DeletePaths == {"config"} \X (TopKeys \cup {"extra"})

WriteValues == {Str(Empty), Str(K)}

TargetIsObject(h, root, obj) == obj = "config" \/ Get(h, root, obj).t = "object"

TargetId(h, root, obj) == IF obj = "config" THEN root ELSE Get(h, root, obj).ref

\* The exported constant has type Readonly<Config>: the four top-level
\* properties are readonly and no other top-level property exists; the
\* properties of the nested records keep their declared, writable types.
StaticAllowsAssign(p, v) == p[1] # "config" /\ Assignable(v, FieldType(p[2]))

\* delete needs an optional, non-readonly operand; Config declares none
StaticAllowsDelete(p) == FALSE

\* how the writing code is built: "checked" is TypeScript that goes through
\* the type checker, "unchecked" is code the checker does not reject (plain
\* JavaScript, or a cast to any).  config.ts is an ES module and so is every
\* importer of it, hence all of this code is strict.
Modes == {"checked", "unchecked"}

\* a failed [[Set]] / [[Delete]] throws a TypeError in strict code
Outcome(ok) == IF ok THEN "done" ELSE "TypeError"

NoAttempt == [op |-> "none", obj |-> "none", outcome |-> "none"]
NotSeen == [inst |-> 0, v |-> [f \in Fields |-> Undefined]]

\* ------------------------------------------------------------ the system
Init ==
  /\ cand = Shipped
  /\ pc = "source"
  /\ heap = [id \in ObjIds |-> NoObj]
  /\ insts = <<>>
  /\ snap = <<>>
  /\ last = NoAttempt
  /\ seen = [c \in Consumers |-> NotSeen]
  /\ steps = 0

\* type-checking of the module: the literal against Config
Compile ==
  /\ pc = "source"
  /\ pc' = IF Conforms(cand) THEN "compiled" ELSE "rejected"
  /\ UNCHANGED <<cand, heap, insts, snap, last, seen, steps>>

\* evaluation of the module body (once per module instance)
Evaluate ==
  /\ pc \in {"compiled", "live"}
  /\ Len(insts) < MaxInst
  /\ LET n == 3 * Len(insts)
         h == Construct(heap, n, cand)
     IN /\ heap' = h
        /\ insts' = Append(insts, n + 1)
        /\ snap' = Append(snap, Flat(h, n + 1))
  /\ pc' = "live"
  /\ UNCHANGED <<cand, last, seen, steps>>

\* target.k = v  by a consumer of instance i
Assign(i, p, v, mode) ==
  /\ pc = "live"
  /\ steps < MaxSteps
  /\ i \in 1..Len(insts)
  /\ steps' = steps + 1
  /\ IF mode = "checked" /\ ~StaticAllowsAssign(p, v)
     THEN /\ last' = [op |-> "assign", obj |-> p[1], outcome |-> "compileError"]
          /\ heap' = heap
     ELSE IF ~TargetIsObject(heap, insts[i], p[1])
     THEN /\ last' = [op |-> "assign", obj |-> p[1], outcome |-> Outcome(FALSE)]
          /\ heap' = heap
     ELSE LET id == TargetId(heap, insts[i], p[1])
              ok == SetOk(heap[id], p[2])
          IN /\ last' = [op |-> "assign", obj |-> p[1], outcome |-> Outcome(ok)]
             /\ heap' = IF ok THEN [heap EXCEPT ![id] = SetApply(@, p[2], v)] ELSE heap
  /\ UNCHANGED <<cand, pc, insts, snap, seen>>

\* delete target.k  by a consumer of instance i
Delete(i, p, mode) ==
  /\ pc = "live"
  /\ steps < MaxSteps
  /\ i \in 1..Len(insts)
  /\ steps' = steps + 1
  /\ IF mode = "checked" /\ ~StaticAllowsDelete(p)
     THEN /\ last' = [op |-> "delete", obj |-> p[1], outcome |-> "compileError"]
          /\ heap' = heap
     ELSE IF ~TargetIsObject(heap, insts[i], p[1])
     THEN /\ last' = [op |-> "delete", obj |-> p[1], outcome |-> Outcome(TRUE)]
          /\ heap' = heap
     ELSE LET id == TargetId(heap, insts[i], p[1])
              ok == DeleteOk(heap[id], p[2])
          IN /\ last' = [op |-> "delete", obj |-> p[1], outcome |-> Outcome(ok)]
             /\ heap' = IF ok THEN [heap EXCEPT ![id] = DeleteApply(@, p[2])] ELSE heap
  /\ UNCHANGED <<cand, pc, insts, snap, seen>>

\* consumer c reads every declared field of instance i (one run-to-completion
\* turn of the event loop)
Read(c, i) ==
  /\ pc = "live"
  /\ steps < MaxSteps
  /\ i \in 1..Len(insts)
  /\ steps' = steps + 1
  /\ seen' = [seen EXCEPT ![c] = [inst |-> i, v |-> Flat(heap, insts[i])]]
  /\ UNCHANGED <<cand, pc, heap, insts, snap, last>>

Next ==
  \/ Compile
  \/ Evaluate
  \/ \E i \in 1..MaxInst, p \in WritePaths, v \in WriteValues, mode \in Modes :
       Assign(i, p, v, mode)
  \/ \E i \in 1..MaxInst, p \in DeletePaths, mode \in Modes : Delete(i, p, mode)
  \/ \E c \in Consumers, i \in 1..MaxInst : Read(c, i)

Spec == Init /\ [][Next]_vars

\* ------------------------------------- other literals of the same shape
\* The literal of config.ts with other field values, to exercise the type
\* Config: absent fields, non-strings, non-empty seo strings, non-URLs.
MkLit(ti, de, gh, di, ak, ai, ix) ==
  [f \in Fields |->
     CASE f = "title" -> ti
       [] f = "description" -> de
       [] f = "github" -> gh
       [] f = "discord" -> di
       [] f = "apiKey" -> ak
       [] f = "appId" -> ai
       [] OTHER -> ix]

Candidates ==
  {MkLit(ti, de, gh, di, ak, ai, ix) :
     ti \in {Missing, Str(Empty), Str(MyDocs)},
     de \in {Str(Empty), Str(DocsForMyProject), Num},
     gh \in {Str(GithubUrl), Str(OrgRepoUrl), Str(NotAUrl), Missing},
     di \in {Str(DiscordUrl), Str(InviteUrl), Num},
     ak \in {Str(Empty), Str(K)},
     ai \in {Str(Empty), Str(K)},
     ix \in {Str(Empty), Str(K), Missing}}

Scenario ==
  MkLit(Str(MyDocs), Str(DocsForMyProject), Str(OrgRepoUrl), Str(InviteUrl),
        Str(Empty), Str(Empty), Str(Empty))

InitShape ==
  /\ cand \in Candidates
  /\ pc = "source"
  /\ heap = [id \in ObjIds |-> NoObj]
  /\ insts = <<>>
  /\ snap = <<>>
  /\ last = NoAttempt
  /\ seen = [c \in Consumers |-> NotSeen]
  /\ steps = 0

NextShape ==
  \/ Compile
  \/ Evaluate
  \/ \E c \in Consumers, i \in 1..MaxInst : Read(c, i)

SpecShape == InitShape /\ [][NextShape]_vars

\* ------------------------------------------------ notions of the claims
IsPrefix(p, s) == Len(p) <= Len(s) /\ SubSeq(s, 1, Len(p)) = p

HasScheme(s, p) == IsPrefix(p, s) /\ Len(s) > Len(p)

\* an absolute http(s) URL: scheme, "://", something after it, no blanks
IsURL(s) ==
  /\ HasScheme(s, HttpsPrefix) \/ HasScheme(s, HttpPrefix)
  /\ \A n \in 1..Len(s) : s[n] # " "

\* what a consumer derives to decide whether to mount the search widget
SearchEnabled(h, root) ==
  \A f \in AlgoliaFields :
    LET v == ReadField(h, root, f) IN v.t = "string" /\ v.s # Empty

Live == 1..Len(insts)

TypeOK ==
  /\ pc \in {"source", "compiled", "rejected", "live"}
  /\ Len(insts) <= MaxInst
  /\ steps \in 0..MaxSteps

\* ------------------------------------------------------------------ claims

\* C1: after construction and any sequence of attempted writes, every
\* declared field at every depth (seo.*, github, discord, algolia.*) still
\* has the value it had at construction.
C1_EveryFieldKeepsConstructedValue ==
  \A i \in Live : Flat(heap, insts[i]) = snap[i]

\* C2: every attempt to alter a field, top-level or nested, ends in an
\* explicit rejection (a type error at compile time or a TypeError at the
\* write); none completes silently.
C2_EveryWriteAttemptRejected ==
  last.op # "none" => last.outcome \in {"compileError", "TypeError"}

\* C3: constructing the config never fails, and the constructed object has
\* all seven declared fields present as strings (the empty string included).
C3_ConstructionYieldsSevenStrings ==
  /\ pc # "rejected"
  /\ \A i \in 1..Len(snap) : \A f \in Fields : snap[i][f].t = "string"

C3_Witness ==
  /\ pc = "live"
  /\ Len(snap) >= 1
  /\ snap[1]["title"] = Str(Empty)
  /\ snap[1]["github"] = Str(GithubUrl)

\* C4: for the config as shipped (all three algolia fields empty) search is
\* reported disabled in every reachable state.
C4_ShippedSearchAlwaysDisabled ==
  \A i \in Live : ~SearchEnabled(heap, insts[i])

\* C5: in every state after construction, whatever writes were attempted,
\* config.github and config.discord are non-empty well-formed URL strings.
C5_LinksStayWellFormedUrls ==
  \A i \in Live : \A f \in TopFields :
    LET v == ReadField(heap, insts[i], f)
    IN v.t = "string" /\ v.s # Empty /\ IsURL(v.s)

C5_Witness ==
  /\ last.op = "assign"
  /\ last.obj = "config"
  /\ last.outcome = "TypeError"
  /\ \A i \in Live : ReadField(heap, insts[i], "github") = Str(GithubUrl)

\* C6: whatever the consumers do and however their steps interleave, every
\* read of a field returns the value the field had at construction.
C6_ReadsReturnConstructedValues ==
  \A c \in Consumers : seen[c].inst # 0 => seen[c].v = snap[seen[c].inst]

\* C7: two constructions yield objects that are equal field by field over
\* all seven declared fields, each taken as it is when its construction ends.
C7_ConstructionsFieldwiseEqual ==
  \A i \in 1..Len(snap) : \A j \in 1..Len(snap) : snap[i] = snap[j]

C7_Witness ==
  /\ Len(snap) >= 2
  /\ Flat(heap, insts[1]) # snap[1]
  /\ Flat(heap, insts[2]) = snap[2]

\* C8: the literal with seo.title = "My Docs", seo.description = "Docs for
\* My Project", the two example links and empty algolia fields is a legal
\* config: it is accepted, exposes those values unchanged and reports search
\* as disabled.
C8_ScenarioIsLegalConfig ==
  (cand = Scenario /\ pc # "source") =>
    /\ pc # "rejected"
    /\ \A i \in Live : Flat(heap, insts[i]) = Scenario /\ ~SearchEnabled(heap, insts[i])

C10_OuterRecordFrozenNestedNot ==
  \A i \in Live :
    LET r == insts[i] IN
      /\ OwnKeys(heap, r) = TopKeys
      /\ \A f \in TopFields : Get(heap, r, f) = snap[i][f]
      /\ Get(heap, r, "seo") = Ref(r + 1)
      /\ Get(heap, r, "algolia") = Ref(r + 2)
      /\ \A k \in TopKeys : ~heap[r].props[k].writable /\ ~heap[r].props[k].configurable
      /\ ~heap[r].extensible
      /\ heap[r + 1].extensible /\ \A f \in SeoFields : heap[r + 1].props[f].writable
      /\ heap[r + 2].extensible /\ \A f \in AlgoliaFields : heap[r + 2].props[f].writable

C10_Witness ==
  /\ last.op = "delete"
  /\ last.obj = "config"
  /\ last.outcome = "TypeError"
  /\ \A i \in Live : OwnKeys(heap, insts[i]) = TopKeys

====
